---- MODULE Spec2Model ----
(***************************************************************************)
(* Model of the position engine of portfolioplanner's backend:             *)
(*   - group_positions_by_strategy   (app/services/schwab_service.py)      *)
(*   - generate_position_signature,                                        *)
(*     signatures_match              (app/services/position_signature.py)  *)
(*   - sync_schwab_positions and the position CRUD services                *)
(*                                   (app/services/position_service.py)    *)
(*   - update_position_strategy,                                           *)
(*     sync_positions                (app/api/v1/positions.py)             *)
(*   - fetch_account_data and the transform_* normalizers                  *)
(*                                   (app/services/schwab_service.py)      *)
(*                                                                         *)
(* Conventions.  Python's None for a strike or an expiration is the value  *)
(* None (0): the normalizer maps a zero strike to None                     *)
(* ("float(strike) if strike else None"), and dates are day ordinals >= 1. *)
(* Strikes are in cents.  Python lists are sequences; list.remove and the  *)
(* "in" test compare leg dictionaries by value, as record equality does.   *)
(***************************************************************************)
EXTENDS Integers, Sequences, FiniteSets, TLC

VARIABLES
    \* ---- the database and the clock (sync / CRUD state machine)
    positions,      \* rows of table "positions": id -> row
    nextId,         \* next fresh primary key (uuid4 in the code)
    today,          \* datetime.now().date(), a day ordinal
    lastOp,         \* name of the last service operation that ran
    lastSync,       \* what the sync that just ran read, matched and created
    prevSync,       \* the feed and the positions of the last completed sync
    overrides,      \* strategy overrides requested since the last sync
    shares,         \* rows of table "position_shares"
    ops,            \* number of service operations run so far
    serviceColumns, \* the mapped Position class has the attributes the
                    \* services assign (maintenance_requirement, ...)
    \* ---- strategy detector on its own
    gIn,            \* input of group_positions_by_strategy
    gOut,           \* its outcome (raised, groups)
    gPc,            \* "in" before the call, "done" after
    \* ---- signature generator on its own
    sLegsA,         \* a leg list
    sLegsB,         \* a variant of sLegsA
    sRel,           \* how sLegsB was derived from sLegsA
    sSigA,          \* generate_position_signature(sLegsA, ..)
    sSigB,          \* generate_position_signature(sLegsB, ..)
    sArgs,          \* arguments of the last signatures_match call
    sMatch,         \* its result
    sPc,            \* "in", "varied", "signed", "matched"
    \* ---- fetch_account_data on its own
    fRaw,           \* the broker's answer for each account
    fOut,           \* what fetch_account_data returns (accounts, positions)
    fPc,            \* "in" before the call, "done" after
    \* ---- concurrent sync requests
    req,            \* each POST /sync request: where it is and what it read
    \* ---- tables and objects beside the positions
    schwabAccounts, \* rows of table "user_schwab_accounts": account hashes
    \* ---- the WebSocket connection manager
    active_connections, \* user_id -> set of its connections
    connection_to_user, \* connection -> user_id
    task            \* the coroutine that sends: where it is, what it iterates

dbVars  == <<positions, nextId, today, lastOp, lastSync, prevSync, overrides, shares,
            ops, serviceColumns>>
grpVars == <<gIn, gOut, gPc>>
sigVars == <<sLegsA, sLegsB, sRel, sSigA, sSigB, sArgs, sMatch, sPc>>
fetchVars == <<fRaw, fOut, fPc>>
concVars == <<req>>
wsVars == <<active_connections, connection_to_user, task>>
auxVars == <<schwabAccounts, wsVars>>
vars    == <<positions, nextId, today, lastOp, lastSync, prevSync, overrides,
             shares, ops, serviceColumns,
             gIn, gOut, gPc,
             sLegsA, sLegsB, sRel, sSigA, sSigB, sArgs, sMatch, sPc,
             fRaw, fOut, fPc, req, schwabAccounts,
             active_connections, connection_to_user, task>>

None == 0

Abs(x) == IF x < 0 THEN -x ELSE x

(***************************************************************************)
(* Python list helpers                                                     *)
(***************************************************************************)
\* x in s
InSeq(x, s) == \E i \in 1..Len(s) : s[i] = x

\* s.remove(x): drops the first element equal to x
RECURSIVE RemoveFirst(_, _)
RemoveFirst(s, x) ==
    IF s = <<>> THEN <<>>
    ELSE IF Head(s) = x THEN Tail(s)
         ELSE <<Head(s)>> \o RemoveFirst(Tail(s), x)

\* for x in xs: if x in s: s.remove(x)
RECURSIVE RemoveAll(_, _)
RemoveAll(s, xs) ==
    IF xs = <<>> THEN s
    ELSE RemoveAll(RemoveFirst(s, Head(xs)), Tail(xs))

\* next((e for e in s if Test(e)), None) as an index, 0 when there is none
FirstIdx(s, Test(_)) ==
    IF \E i \in 1..Len(s) : Test(s[i])
    THEN CHOOSE i \in 1..Len(s) : Test(s[i]) /\ \A j \in 1..(i-1) : ~Test(s[j])
    ELSE 0

\* keys of a dict filled in list order: first occurrences, in order
RECURSIVE DistinctInOrder(_)
DistinctInOrder(s) ==
    IF s = <<>> THEN <<>>
    ELSE LET rest == DistinctInOrder(SubSeq(s, 1, Len(s) - 1))
             x    == s[Len(s)]
         IN IF InSeq(x, rest) THEN rest ELSE Append(rest, x)

RECURSIVE SumLens(_)
SumLens(gs) == IF gs = <<>> THEN 0 ELSE Len(Head(gs).legs) + SumLens(Tail(gs))

RECURSIVE ConcatLegs(_)
ConcatLegs(gs) == IF gs = <<>> THEN <<>> ELSE Head(gs).legs \o ConcatLegs(Tail(gs))

\* number of occurrences of x in s
RECURSIVE Count(_, _)
Count(x, s) ==
    IF s = <<>> THEN 0
    ELSE (IF Head(s) = x THEN 1 ELSE 0) + Count(x, Tail(s))

(***************************************************************************)
(* Normalized legs, as transform_option_position and                       *)
(* transform_equity_position return them (the fields the engine reads)     *)
(***************************************************************************)
\* transform_option_position with the cost basis of a short leg left positive
OptionLegUnsigned(sym, und, acct, pc, k, exp, qty, avg, val) ==
    [symbol |-> sym, underlying |-> und, asset_type |-> "option",
     option_type |-> pc, strike |-> k, expiration |-> exp, quantity |-> qty,
     average_price |-> avg, cost_basis |-> Abs(qty) * avg * 100,
     current_value |-> val, account_hash |-> acct]

OptionLeg(sym, und, acct, pc, k, exp, qty, avg, val) ==
    [symbol |-> sym, underlying |-> und, asset_type |-> "option",
     option_type |-> pc, strike |-> k, expiration |-> exp, quantity |-> qty,
     average_price |-> avg,
     cost_basis |-> IF qty < 0 THEN -(Abs(qty) * avg * 100)
                    ELSE Abs(qty) * avg * 100,
     current_value |-> val, account_hash |-> acct]

StockLeg(sym, acct, qty, avg, val) ==
    [symbol |-> sym, underlying |-> sym, asset_type |-> "stock",
     option_type |-> "None", strike |-> None, expiration |-> None,
     quantity |-> qty, average_price |-> avg, cost_basis |-> qty * avg,
     current_value |-> val, account_hash |-> acct]


(***************************************************************************)
(* group_positions_by_strategy                                             *)
(***************************************************************************)
\* tolerance of the box test, abs(a - b) < 0.1, in cents
BoxTolerance == 10

\* option size at which a lone option is a big_option
BigOptionQty == 10

\* cost basis (dollars) at which a lone option is a big_option
BigOptionCost == 5000

\* AUTO_DETECTED_STRATEGIES
AutoDetectedStrategies ==
    {"covered_call", "vertical_spread", "box_spread", "long_stock",
     "short_stock", "big_option", "single_option"}

Group(st, legs, und) == [strategy_type |-> st, legs |-> legs, underlying |-> und]

IsCall(o) == o.option_type = "call"
IsPut(o)  == o.option_type = "put"
IsLong(o)  == o.quantity > 0
IsShort(o) == o.quantity < 0

\* the covered-call test of one stock against one option of the bucket
Covers(stock, opt) ==
    /\ opt.option_type = "call"
    /\ opt.quantity < 0
    /\ stock.quantity >= Abs(opt.quantity) * 100

\* CoveredCalls with the paired call left in remaining_options
RECURSIVE CoveredCallsKeepOption(_, _, _)
CoveredCallsKeepOption(stockCopy, w, und) ==
    IF stockCopy = <<>> THEN w
    ELSE LET stock == Head(stockCopy)
             i == FirstIdx(w.exp_options, LAMBDA o : Covers(stock, o))
         IN IF i = 0 THEN CoveredCallsKeepOption(Tail(stockCopy), w, und)
            ELSE LET opt == w.exp_options[i]
                 IN CoveredCallsKeepOption(Tail(stockCopy),
                      [w EXCEPT
                         !.detected = Append(@, Group("covered_call", <<stock, opt>>, und)),
                         !.remaining_stocks = RemoveFirst(@, stock),
                         !.exp_options = RemoveFirst(@, opt)],
                      und)

\* the covered-call loop of one expiration bucket: for each stock still
\* remaining, pair it with the first option of the bucket it covers
RECURSIVE CoveredCalls(_, _, _)
CoveredCalls(stockCopy, w, und) ==
    IF stockCopy = <<>> THEN w
    ELSE LET stock == Head(stockCopy)
             i == FirstIdx(w.exp_options, LAMBDA o : Covers(stock, o))
         IN IF i = 0 THEN CoveredCalls(Tail(stockCopy), w, und)
            ELSE LET opt == w.exp_options[i]
                 IN CoveredCalls(Tail(stockCopy),
                      [w EXCEPT
                         !.detected = Append(@, Group("covered_call", <<stock, opt>>, und)),
                         !.remaining_stocks = RemoveFirst(@, stock),
                         !.remaining_options = RemoveFirst(@, opt),
                         !.exp_options = RemoveFirst(@, opt)],
                      und)

\* the box-spread test of one bucket: "box" with the four legs, "raise" when
\* a strike of None reaches the subtraction, "no" otherwise
BoxSpread(exp_options) ==
    LET exp_calls == SelectSeq(exp_options, IsCall)
        exp_puts  == SelectSeq(exp_options, IsPut)
        cl == FirstIdx(exp_calls, IsLong)
        cs == FirstIdx(exp_calls, IsShort)
        pl == FirstIdx(exp_puts, IsLong)
        ps == FirstIdx(exp_puts, IsShort)
        no == [kind |-> "no", legs |-> <<>>]
    IN IF Len(exp_options) # 4 THEN no
       ELSE IF ~(Len(exp_calls) = 2 /\ Len(exp_puts) = 2) THEN no
       ELSE IF cl = 0 \/ cs = 0 \/ pl = 0 \/ ps = 0 THEN no
       ELSE LET call_long  == exp_calls[cl]
                call_short == exp_calls[cs]
                put_long   == exp_puts[pl]
                put_short  == exp_puts[ps]
            IN IF call_long.strike = None \/ put_short.strike = None
               THEN [kind |-> "raise", legs |-> <<>>]
               ELSE IF ~(Abs(call_long.strike - put_short.strike) < BoxTolerance)
               THEN no
               ELSE IF call_short.strike = None \/ put_long.strike = None
               THEN [kind |-> "raise", legs |-> <<>>]
               ELSE IF ~(Abs(call_short.strike - put_long.strike) < BoxTolerance)
               THEN no
               ELSE [kind |-> "box",
                     legs |-> <<call_long, call_short, put_long, put_short>>]

\* sorted(pair, key=strike) / sorted(pair, key=strike, reverse=True) of a
\* two-element list; both are stable
SortedByStrike(pair, reverse) ==
    IF reverse
    THEN IF pair[1].strike < pair[2].strike THEN <<pair[2], pair[1]>> ELSE pair
    ELSE IF pair[2].strike < pair[1].strike THEN <<pair[2], pair[1]>> ELSE pair

\* comparing the two sort keys raises TypeError when one is None
SortRaises(pair) == pair[1].strike = None \/ pair[2].strike = None

\* one vertical-spread attempt (puts: reverse = TRUE, calls: FALSE)
Vertical(w, und, IsType(_), reverse) ==
    LET cand == SelectSeq(w.exp_options,
                          LAMBDA o : IsType(o) /\ InSeq(o, w.remaining_options))
    IN IF w.raised \/ Len(cand) # 2 THEN w
       ELSE IF SortRaises(cand) THEN [w EXCEPT !.raised = TRUE]
       ELSE LET srt == SortedByStrike(cand, reverse)
                hit == IF reverse
                       THEN srt[1].quantity < 0 /\ srt[2].quantity > 0
                       ELSE srt[1].quantity > 0 /\ srt[2].quantity < 0
            IN IF ~hit THEN w
               ELSE [w EXCEPT
                       !.detected = Append(@, Group("vertical_spread", srt, und)),
                       !.remaining_options = RemoveAll(@, srt)]

\* the body of "for exp, exp_options in by_expiration.items()"
Bucket(w0, bucket, und) ==
    LET w1  == CoveredCalls(w0.remaining_stocks,
                            [w0 EXCEPT !.exp_options = bucket], und)
        box == BoxSpread(w1.exp_options)
    IN IF box.kind = "raise" THEN [w1 EXCEPT !.raised = TRUE]
       ELSE IF box.kind = "box"
       THEN [w1 EXCEPT
               !.detected = Append(@, Group("box_spread", box.legs, und)),
               !.remaining_options = RemoveAll(@, box.legs)]
       ELSE Vertical(Vertical(w1, und, IsPut, TRUE), und, IsCall, FALSE)

RECURSIVE Buckets(_, _, _, _)
Buckets(w, exps, options, und) ==
    IF exps = <<>> \/ w.raised THEN w
    ELSE Buckets(Bucket(w, SelectSeq(options, LAMBDA o : o.expiration = Head(exps)), und),
                 Tail(exps), options, und)

\* "Add remaining positions as individual positions"
LeftoverStock(stock, und) ==
    Group(IF stock.quantity > 0 THEN "long_stock" ELSE "short_stock", <<stock>>, und)

\* a leftover option given a type of the custom list
LeftoverOptionUnallocated(opt, und) ==
    Group("unallocated", <<opt>>, und)

LeftoverOption(opt, und) ==
    Group(IF Abs(opt.quantity) >= BigOptionQty \/ Abs(opt.cost_basis) >= BigOptionCost
          THEN "big_option" ELSE "single_option", <<opt>>, und)

\* the body of "for (underlying, account_hash), group in ...items()"
GroupOneKey(group, und) ==
    LET stocks  == SelectSeq(group, LAMBDA p : p.asset_type = "stock")
        options == SelectSeq(group, LAMBDA p : p.asset_type = "option")
        exps == DistinctInOrder([i \in 1..Len(options) |-> options[i].expiration])
        w == Buckets([raised |-> FALSE, detected |-> <<>>,
                      remaining_stocks |-> stocks, remaining_options |-> options,
                      exp_options |-> <<>>],
                     exps, options, und)
    IN [raised |-> w.raised,
        groups |-> w.detected
                   \o [i \in 1..Len(w.remaining_stocks) |->
                          LeftoverStock(w.remaining_stocks[i], und)]
                   \o [i \in 1..Len(w.remaining_options) |->
                          LeftoverOption(w.remaining_options[i], und)]]

RECURSIVE GroupKeys(_, _, _)
GroupKeys(keys, legs, acc) ==
    IF keys = <<>> \/ acc.raised THEN acc
    ELSE LET k == Head(keys)
             r == GroupOneKey(SelectSeq(legs, LAMBDA p :
                        <<p.underlying, p.account_hash>> = k), k[1])
         IN GroupKeys(Tail(keys), legs,
                      [raised |-> r.raised, groups |-> acc.groups \o r.groups])

\* group_positions_by_strategy(positions): the groups it returns, or raised
\* (with no groups) when an exception leaves the function
GroupPositionsByStrategy(legs) ==
    LET keys == DistinctInOrder([i \in 1..Len(legs) |->
                                   <<legs[i].underlying, legs[i].account_hash>>])
        r == GroupKeys(keys, legs, [raised |-> FALSE, groups |-> <<>>])
    IN IF r.raised THEN [raised |-> TRUE, groups |-> <<>>] ELSE r

(***************************************************************************)
(* generate_position_signature, signatures_match                           *)
(*                                                                         *)
(* A Python str that the generator builds is a sequence of parts, one per  *)
(* element of signature_parts (the "|" join); a part is a 6-tuple of its   *)
(* ":"-separated fields.  str(strike) and str(expiration) are sequences of *)
(* character codes, so that the sort compares them as strings.  The empty  *)
(* string is <<>>.  The SHA-256 hex digest of a string is that string      *)
(* behind a digest tag: the digest is taken to be injective.               *)
(***************************************************************************)
\* every leg symbol of the model, in Python's string order
SymbolsSorted ==
    << "AAPL", "SPY", "SPY   250321C00100000", "SPY   250321C00110000",
       "SPY   250321P", "SPY   250321P00090000", "SPY   250321P00100000",
       "SPY   250321P00110000", "SPY   250418C00100000", "SPY   C00100000" >>

SymRank(sym) == CHOOSE i \in 1..Len(SymbolsSorted) : SymbolsSorted[i] = sym

\* "option" < "stock"
AssetRank(t) == IF t = "option" THEN 1 ELSE 2

\* decimal digits of a natural number, as character codes
RECURSIVE Digits(_)
Digits(n) == IF n < 10 THEN <<48 + n>> ELSE Append(Digits(n \div 10), 48 + (n % 10))

StrNone == <<78, 111, 110, 101>>

\* the int 0 that "float(leg.strike) if leg.strike else 0" puts in place of
\* a strike that is None or 0 (every strike of a leg is positive)
IntZero == -1

\* str(strike) of a float strike given in cents: "100.0", "100.05", "None",
\* and "0" for the int 0
StrFloat(k) ==
    IF k = None THEN StrNone
    ELSE IF k = IntZero THEN <<48>>
    ELSE LET f == k % 100
         IN Digits(k \div 100) \o <<46>> \o
            (IF f % 10 = 0 THEN <<48 + (f \div 10)>>
             ELSE <<48 + (f \div 10), 48 + (f % 10)>>)

\* str(expiration) of a date: fixed-width digits (ISO format), or "None"
StrDate(d) == IF d = None THEN StrNone ELSE <<48 + (d \div 10), 48 + (d % 10)>>

\* a < b for strings given as character codes
RECURSIVE StrLess(_, _)
StrLess(a, b) ==
    IF b = <<>> THEN FALSE
    ELSE IF a = <<>> THEN TRUE
    ELSE IF Head(a) # Head(b) THEN Head(a) < Head(b)
    ELSE StrLess(Tail(a), Tail(b))

\* key(a) < key(b) for the sort key
\* (asset_type, symbol, str(strike), str(expiration))
KeyLess(a, b) ==
    IF a.asset_type # b.asset_type THEN AssetRank(a.asset_type) < AssetRank(b.asset_type)
    ELSE IF a.symbol # b.symbol THEN SymRank(a.symbol) < SymRank(b.symbol)
    ELSE IF a.strike # b.strike THEN StrLess(StrFloat(a.strike), StrFloat(b.strike))
    ELSE StrLess(StrDate(a.expiration), StrDate(b.expiration))

\* insert x behind every element whose key is not greater (stable)
RECURSIVE InsertByKey(_, _)
InsertByKey(srt, x) ==
    IF srt = <<>> THEN <<x>>
    ELSE IF KeyLess(x, Head(srt)) THEN <<x>> \o srt
         ELSE <<Head(srt)>> \o InsertByKey(Tail(srt), x)

\* sorted(legs, key=...)
RECURSIVE SortedLegs(_)
SortedLegs(legs) ==
    IF legs = <<>> THEN <<>>
    ELSE InsertByKey(SortedLegs(SubSeq(legs, 1, Len(legs) - 1)), legs[Len(legs)])

\* the quantity range of a stock leg
QtyRange(quantity) ==
    LET q == Abs(quantity)
    IN IF q < 10 THEN "tiny"
       ELSE IF q < 100 THEN "small"
       ELSE IF q < 1000 THEN "medium"
       ELSE "large"

\* LegSignature with the exact quantity of an option leg in it
LegSignatureWithQuantity(leg) ==
    IF leg.asset_type = "option"
    THEN <<"leg", leg.asset_type, leg.symbol, leg.option_type,
           StrFloat(leg.strike) \o <<58>> \o Digits(Abs(leg.quantity)),
           StrDate(leg.expiration)>>
    ELSE <<"leg", leg.asset_type, leg.symbol, QtyRange(leg.quantity), <<>>, <<>>>>

\* LegSignature without the strike of an option leg
LegSignatureNoStrike(leg) ==
    IF leg.asset_type = "option"
    THEN <<"leg", leg.asset_type, leg.symbol, leg.option_type,
           <<>>, StrDate(leg.expiration)>>
    ELSE <<"leg", leg.asset_type, leg.symbol, QtyRange(leg.quantity), <<>>, <<>>>>

\* leg_signature of one leg
LegSignature(leg) ==
    IF leg.asset_type = "option"
    THEN <<"leg", leg.asset_type, leg.symbol, leg.option_type,
           StrFloat(leg.strike), StrDate(leg.expiration)>>
    ELSE <<"leg", leg.asset_type, leg.symbol, QtyRange(leg.quantity), <<>>, <<>>>>

\* "|".join(signature_parts)
SignatureString(legs, symbol, account_hash) ==
    LET sorted_legs == SortedLegs(legs)
    IN << <<"symbol", symbol, "", "", <<>>, <<>>>>,
          <<"account", account_hash, "", "", <<>>, <<>>>> >>
       \o [i \in 1..Len(sorted_legs) |-> LegSignature(sorted_legs[i])]

EmptyStr == <<>>

\* hashlib.sha256(s.encode()).hexdigest()
Sha256Hex(str) == << <<"sha256", "", "", "", <<>>, <<>>>> >> \o str

GeneratePositionSignature(legs, symbol, account_hash) ==
    IF legs = <<>> THEN EmptyStr
    ELSE Sha256Hex(SignatureString(legs, symbol, account_hash))

\* leg_dict of generate_position_signature_from_db_legs for one stored leg;
\* a stock leg has no 'strike' and no 'expiration' key, which
\* generate_position_signature reads for the sort key only
LegDict(leg) ==
    IF leg.asset_type = "option"
    THEN [asset_type |-> leg.asset_type, symbol |-> leg.symbol,
          quantity |-> leg.quantity, average_price |-> leg.premium,
          option_type |-> leg.option_type,
          strike |-> IF leg.strike = None THEN IntZero ELSE leg.strike,
          expiration |-> leg.expiration]
    ELSE [asset_type |-> leg.asset_type, symbol |-> leg.symbol,
          quantity |-> leg.quantity, average_price |-> leg.premium,
          option_type |-> "None", strike |-> None, expiration |-> None]

\* generate_position_signature_from_db_legs(position, legs); the sync
\* stores the underlying in position.symbol and position.underlying alike
GeneratePositionSignatureFromDbLegs(position, legs) ==
    GeneratePositionSignature([i \in 1..Len(legs) |-> LegDict(legs[i])],
                              position.symbol, position.account_id)

\* an Optional[str] argument: None, or a string
PyNone == [none |-> TRUE, str |-> EmptyStr]
PyStr(str) == [none |-> FALSE, str |-> str]

\* "not sig"
Falsy(sig) == sig.none \/ sig.str = EmptyStr

\* signatures_match as its docstring has it: "or if both are empty/None"
SignaturesMatchBothEmpty(sig1, sig2) ==
    IF Falsy(sig1) /\ Falsy(sig2) THEN TRUE
    ELSE IF Falsy(sig1) \/ Falsy(sig2) THEN FALSE
    ELSE sig1 = sig2

SignaturesMatch(sig1, sig2) ==
    IF Falsy(sig1) \/ Falsy(sig2) THEN FALSE
    ELSE sig1 = sig2

(***************************************************************************)
(* The database: positions with their legs, and shares                     *)
(***************************************************************************)
\* most service operations in one run of the model
MaxOps == 3

\* last day the clock reaches
MaxDay == 2

\* most legs one broker feed holds
MaxFeedLegs == 2

\* test_user_id of the sync and strategy endpoints
SyncUser == "u1"

Users == {"u1", "u2"}

\* users a trade idea is shared with
Friends == {"u2"}

\* values update_position_strategy is called with
StrategyChoices == {"unallocated", "single_option"}

\* the legs the broker holds for the user: a call, a put and a put whose
\* symbol carries no strike, on one underlying in one account
FeedLegs ==
    { OptionLeg("SPY   250321C00100000", "SPY", "a1", "call", 10000, 1, 1, 2, 200),
      OptionLeg("SPY   250321P00100000", "SPY", "a1", "put", 10000, 1, -1, 2, -200),
      OptionLeg("SPY   250321P", "SPY", "a1", "put", None, 1, 1, 2, 200) }

SeqsUpTo(S, n) == UNION { [1..k -> S] : k \in 0..n }

\* a feed reports some of them, each once, in any order
Feeds ==
    {f \in SeqsUpTo(FeedLegs, MaxFeedLegs) :
        \A i, j \in 1..Len(f) : i # j => f[i] # f[j]}

\* sum(...) of a list of numbers
RECURSIVE SumSeq(_)
SumSeq(xs) == IF xs = <<>> THEN 0 ELSE Head(xs) + SumSeq(Tail(xs))

\* a number read from the broker that may be None
PyNum(val) == [none |-> FALSE, val |-> val]
NoNum == [none |-> TRUE, val |-> 0]

\* leg.get(field, 0) or 0: 0 for a missing key, for None and for 0
GetOrZero(leg, field) ==
    IF field \notin DOMAIN leg THEN 0
    ELSE IF leg[field].none THEN 0 ELSE leg[field].val

\* total_day_pnl / total_cost * 100 as the fraction num / den, None when the
\* total cost is 0
DayPnlPct(total_day_pnl, total_cost) ==
    IF total_cost # 0
    THEN [none |-> FALSE, num |-> total_day_pnl * 100, den |-> total_cost]
    ELSE [none |-> TRUE, num |-> 0, den |-> 0]

\* the roll-up with the cost basis summed over absolute values
AggregatesUnsigned(legs) ==
    LET total_cost  == SumSeq([i \in 1..Len(legs) |-> Abs(legs[i].cost_basis)])
        total_value == SumSeq([i \in 1..Len(legs) |-> legs[i].current_value])
        total_day_pnl == SumSeq([i \in 1..Len(legs) |->
                                   GetOrZero(legs[i], "current_day_pnl")])
    IN [quantity |-> SumSeq([i \in 1..Len(legs) |-> Abs(legs[i].quantity)]),
        cost_basis |-> total_cost,
        current_value |-> total_value,
        unrealized_pnl |-> total_value - total_cost,
        maintenance_requirement |->
           SumSeq([i \in 1..Len(legs) |->
                     GetOrZero(legs[i], "maintenance_requirement")]),
        current_day_pnl |-> total_day_pnl,
        current_day_pnl_percentage |-> DayPnlPct(total_day_pnl, total_cost)]

\* "Calculate aggregate values by rolling up from legs"
Aggregates(legs) ==
    LET total_cost  == SumSeq([i \in 1..Len(legs) |-> legs[i].cost_basis])
        total_value == SumSeq([i \in 1..Len(legs) |-> legs[i].current_value])
        total_day_pnl == SumSeq([i \in 1..Len(legs) |->
                                   GetOrZero(legs[i], "current_day_pnl")])
    IN [quantity |-> SumSeq([i \in 1..Len(legs) |-> Abs(legs[i].quantity)]),
        cost_basis |-> total_cost,
        current_value |-> total_value,
        unrealized_pnl |-> total_value - total_cost,
        maintenance_requirement |->
           SumSeq([i \in 1..Len(legs) |->
                     GetOrZero(legs[i], "maintenance_requirement")]),
        current_day_pnl |-> total_day_pnl,
        current_day_pnl_percentage |-> DayPnlPct(total_day_pnl, total_cost)]

\* PositionLeg(...) built from one leg dictionary
PositionLeg(leg_data) ==
    [symbol |-> leg_data.symbol, asset_type |-> leg_data.asset_type,
     option_type |-> leg_data.option_type, strike |-> leg_data.strike,
     expiration |-> leg_data.expiration, quantity |-> leg_data.quantity,
     premium |-> leg_data.average_price]

\* Position(flavor="actual", ...) of the create branch of the sync;
\* is_manual_strategy and schwab_position_signature are the columns
\* add_strategy_locking.py adds, the first with DEFAULT 0, the second NULL
\* when not given; no statement of the services assigns either
NewActual(group, account_hash) ==
    [flavor |-> "actual", user_id |-> SyncUser, account_id |-> account_hash,
     symbol |-> group.underlying, strategy_type |-> group.strategy_type,
     status |-> "active", exit_date |-> None, tags |-> <<>>,
     is_manual_strategy |-> FALSE, schwab_position_signature |-> PyNone,
     quantity |-> Aggregates(group.legs).quantity,
     cost_basis |-> Aggregates(group.legs).cost_basis,
     current_value |-> Aggregates(group.legs).current_value,
     unrealized_pnl |-> Aggregates(group.legs).unrealized_pnl,
     maintenance_requirement |-> Aggregates(group.legs).maintenance_requirement,
     current_day_pnl |-> Aggregates(group.legs).current_day_pnl,
     current_day_pnl_percentage |->
        Aggregates(group.legs).current_day_pnl_percentage,
     legs |-> [i \in 1..Len(group.legs) |-> PositionLeg(group.legs[i])]]

\* the key of existing_by_key for a stored position
KeyOf(p) == <<p.symbol, p.account_id, p.strategy_type>>

\* ids of the rows "flavor == actual, user_id == user"
ActualIds(pos, user) ==
    {id \in DOMAIN pos : pos[id].flavor = "actual" /\ pos[id].user_id = user}

\* the dictionaries the comprehension over existing_positions can build:
\* one position per key; which of several positions with one key it keeps
\* depends on the order in which the unordered query returns the rows
ExistingByKey(pos, ids) ==
    LET keys == {KeyOf(pos[id]) : id \in ids}
    IN {f \in [keys -> ids] : \A k \in keys : KeyOf(pos[f[k]]) = k}

DictDel(d, k) == [x \in DOMAIN d \ {k} |-> d[x]]

\* one iteration of "for grouped_pos in grouped_positions"
ReconcileGroup(st, group) ==
    LET legs == group.legs
        account_hash == legs[1].account_hash
        position_key == <<group.underlying, account_hash, group.strategy_type>>
    IN IF legs = <<>> THEN st
       ELSE IF position_key \in DOMAIN st.existing_by_key
       THEN LET id == st.existing_by_key[position_key]
            IN [st EXCEPT
                  !.pos[id].quantity = Aggregates(legs).quantity,
                  !.pos[id].cost_basis = Aggregates(legs).cost_basis,
                  !.pos[id].current_value = Aggregates(legs).current_value,
                  !.pos[id].unrealized_pnl = Aggregates(legs).unrealized_pnl,
                  !.pos[id].maintenance_requirement =
                      Aggregates(legs).maintenance_requirement,
                  !.pos[id].current_day_pnl = Aggregates(legs).current_day_pnl,
                  !.pos[id].current_day_pnl_percentage =
                      Aggregates(legs).current_day_pnl_percentage,
                  !.pos[id].status = "active",
                  !.pos[id].legs = [i \in 1..Len(legs) |-> PositionLeg(legs[i])],
                  !.matched = @ \cup {id},
                  !.existing_by_key = DictDel(@, position_key)]
       ELSE [st EXCEPT
               !.pos = [x \in DOMAIN st.pos \cup {st.next} |->
                          IF x = st.next THEN NewActual(group, account_hash)
                          ELSE st.pos[x]],
               !.created = @ \cup {st.next},
               !.next = @ + 1]

RECURSIVE ReconcileGroups(_, _)
ReconcileGroups(st, groups) ==
    IF groups = <<>> THEN st
    ELSE ReconcileGroups(ReconcileGroup(st, Head(groups)), Tail(groups))

\* "Mark positions that no longer exist as closed"
CloseRemaining(pos, existing_by_key, date) ==
    LET rest == {existing_by_key[k] : k \in DOMAIN existing_by_key}
    IN [id \in DOMAIN pos |->
          IF id \in rest
          THEN [pos[id] EXCEPT !.status = "closed", !.exit_date = date]
          ELSE pos[id]]

\* the positions part of sync_schwab_positions, for one dictionary
Reconcile(pos, next, groups, existing_by_key, date) ==
    LET st == ReconcileGroups([pos |-> pos, next |-> next,
                               existing_by_key |-> existing_by_key,
                               matched |-> {}, created |-> {}], groups)
    IN [pos |-> CloseRemaining(st.pos, st.existing_by_key, date),
        next |-> st.next, matched |-> st.matched, created |-> st.created]

\* the session of a sync after its first k groups: rows updated and rows
\* added and flushed, none of them committed
Flushed(pos, next, groups, existing_by_key, k) ==
    ReconcileGroups([pos |-> pos, next |-> next,
                     existing_by_key |-> existing_by_key,
                     matched |-> {}, created |-> {}], SubSeq(groups, 1, k))

NoSync ==
    [feed |-> <<>>, date |-> None, pre |-> {}, matched |-> {}, created |-> {},
     groups |-> 0, flushed |-> 0,
     sameFeed |-> FALSE, immediate |-> FALSE, overridden |-> << >>]

NoPrevSync == [some |-> FALSE, feed |-> <<>>, synced |-> {}]

(***************************************************************************)
(* Service operations                                                      *)
(***************************************************************************)
\* a request is served: one more service operation has run
Served == ops < MaxOps /\ ops' = ops + 1 /\ UNCHANGED serviceColumns

\* a failed sync whose session writes reach the tables all the same
SyncFailedKeepsFlushed(session) ==
    /\ lastOp' = "sync_failed"
    /\ lastSync' = [NoSync EXCEPT
                      !.flushed = Cardinality(session.matched \cup session.created)]
    /\ positions' = session.pos
    /\ nextId' = session.next
    /\ UNCHANGED <<today, prevSync, overrides, shares>>

\* the exception leaves sync_schwab_positions before db.commit():
\* sync_positions answers HTTP 500 and get_db closes the session, which
\* rolls back what the session had written (autocommit=False)
SyncFailed(session) ==
    /\ lastOp' = "sync_failed"
    /\ lastSync' = [NoSync EXCEPT
                      !.flushed = Cardinality(session.matched \cup session.created)]
    /\ UNCHANGED <<positions, nextId, today, prevSync, overrides, shares>>

\* sync_schwab_positions(db, SyncUser), the feed being what
\* fetch_account_data returned.  An exception of the detector leaves through
\* sync_positions (HTTP 500) before anything is written.  So does the
\* TypeError of Position(maintenance_requirement=..., ...) in the create
\* branch when the class has no such attribute, as the class declared in
\* models/position.py has not.  And any statement sent to the database can
\* fail (lock timeout, lost connection): the load of the legs of a matched
\* row, db.flush() after a create, db.commit(); the sync then fails after
\* its first k groups.
SyncSchwabPositions(feed) ==
    LET pre == ActualIds(positions, SyncUser)
    IN /\ Served
       /\ \E grouped \in {GroupPositionsByStrategy(feed)} :
          IF grouped.raised
          THEN SyncFailed(Flushed(positions, nextId, <<>>, << >>, 0))
          ELSE \E existing_by_key \in ExistingByKey(positions, pre) :
               \E r \in {Reconcile(positions, nextId, grouped.groups,
                                   existing_by_key, today)} :
                    \/ \E k \in 0..Len(grouped.groups) :
                         SyncFailed(Flushed(positions, nextId, grouped.groups,
                                            existing_by_key, k))
                    \/ IF r.created # {} /\ ~serviceColumns
                       THEN SyncFailed(Flushed(positions, nextId, <<>>, << >>, 0))
                       ELSE
                       /\ positions' = r.pos
                       /\ nextId' = r.next
                       /\ lastOp' = "sync"
                       /\ lastSync' = [feed |-> feed, date |-> today, pre |-> pre,
                                       matched |-> r.matched, created |-> r.created,
                                       groups |-> Len(grouped.groups), flushed |-> 0,
                                       sameFeed |-> (prevSync.some /\ prevSync.feed = feed),
                                       immediate |-> (lastOp = "sync"),
                                       overridden |-> overrides]
                       /\ prevSync' = [some |-> TRUE, feed |-> feed,
                                       synced |-> r.matched \cup r.created]
                       /\ overrides' = << >>
                       /\ UNCHANGED <<today, shares>>

\* PATCH /actual/{id}/strategy
UpdatePositionStrategy(id, strategy_type) ==
    /\ Served
    /\ id \in ActualIds(positions, SyncUser)
    /\ positions' = [positions EXCEPT ![id].strategy_type = strategy_type]
    /\ overrides' = IF id \in prevSync.synced
                     THEN [x \in DOMAIN overrides \cup {id} |->
                             IF x = id THEN strategy_type ELSE overrides[x]]
                     ELSE overrides
    /\ lastOp' = "other"
    /\ lastSync' = NoSync
    /\ UNCHANGED <<nextId, today, prevSync, shares>>

\* create_trade_idea(db, position_data, user_id)
CreateTradeIdea(user) ==
    /\ Served
    /\ positions' = [x \in DOMAIN positions \cup {nextId} |->
                       IF x = nextId
                       THEN [flavor |-> "idea", user_id |-> user,
                             account_id |-> "None", symbol |-> "SPY",
                             strategy_type |-> "covered_call",
                             status |-> "active", exit_date |-> None,
                             tags |-> <<>>, is_manual_strategy |-> FALSE,
                             schwab_position_signature |-> PyNone,
                             legs |-> <<>>]
                       ELSE positions[x]]
    /\ nextId' = nextId + 1
    /\ lastOp' = "other"
    /\ lastSync' = NoSync
    /\ UNCHANGED <<today, prevSync, overrides, shares>>

\* update_position(db, id, user_id, update_data) with update_data.status set
UpdatePosition(id, user, status) ==
    /\ Served
    /\ id \in DOMAIN positions
    /\ positions[id].user_id = user
    /\ positions[id].flavor = "idea"
    /\ positions' = [positions EXCEPT ![id].status = status]
    /\ lastOp' = "other"
    /\ lastSync' = NoSync
    /\ UNCHANGED <<nextId, today, prevSync, overrides, shares>>

\* the row is shared with user by an active share
SharedWith(id, user) ==
    \E sh \in shares : sh.position_id = id /\ sh.recipient_id = user /\ sh.is_active

\* update_position_tags(db, id, user_id, tags)
UpdatePositionTags(id, user, tags) ==
    /\ Served
    /\ id \in DOMAIN positions
    /\ positions[id].flavor = "idea"
    /\ positions[id].user_id = user \/ SharedWith(id, user)
    /\ positions' = [positions EXCEPT ![id].tags = tags]
    /\ lastOp' = "other"
    /\ lastSync' = NoSync
    /\ UNCHANGED <<nextId, today, prevSync, overrides, shares>>

\* delete_position without the filter on flavor
DeletePositionAnyFlavor(id, user) ==
    /\ Served
    /\ id \in DOMAIN positions
    /\ positions[id].user_id = user
    /\ positions' = [x \in DOMAIN positions \ {id} |-> positions[x]]
    /\ shares' = {sh \in shares : sh.position_id # id}
    /\ lastOp' = "delete"
    /\ lastSync' = NoSync
    /\ UNCHANGED <<nextId, today, prevSync, overrides>>

\* delete_position(db, id, user_id); the shares of the row go with it
\* (cascade="all, delete-orphan")
DeletePosition(id, user) ==
    /\ Served
    /\ id \in DOMAIN positions
    /\ positions[id].user_id = user
    /\ positions[id].flavor = "idea"
    /\ positions' = [x \in DOMAIN positions \ {id} |-> positions[x]]
    /\ shares' = {sh \in shares : sh.position_id # id}
    /\ lastOp' = "delete"
    /\ lastSync' = NoSync
    /\ UNCHANGED <<nextId, today, prevSync, overrides>>

\* convert_actual_to_trade_idea(db, id, user_id)
ConvertActualToTradeIdea(id, user) ==
    /\ Served
    /\ id \in ActualIds(positions, user)
    /\ positions' = [x \in DOMAIN positions \cup {nextId} |->
                       IF x = nextId
                       THEN [flavor |-> "idea", user_id |-> user,
                             account_id |-> "None",
                             symbol |-> positions[id].symbol,
                             strategy_type |-> positions[id].strategy_type,
                             status |-> "active", exit_date |-> None,
                             tags |-> positions[id].tags,
                             is_manual_strategy |-> FALSE,
                             schwab_position_signature |-> PyNone,
                             legs |-> positions[id].legs]
                       ELSE positions[x]]
    /\ nextId' = nextId + 1
    /\ lastOp' = "other"
    /\ lastSync' = NoSync
    /\ UNCHANGED <<today, prevSync, overrides, shares>>

\* share_position(db, id, user_id, friend_ids)
SharePosition(id, user, friend_ids) ==
    /\ Served
    /\ id \in DOMAIN positions
    /\ positions[id].user_id = user
    /\ positions[id].flavor = "idea"
    /\ shares' = {sh \in shares : sh.position_id # id}
                 \cup {[sh EXCEPT !.is_active = FALSE] :
                         sh \in {x \in shares : x.position_id = id
                                               /\ x.recipient_id \notin friend_ids}}
                 \cup {[position_id |-> id, recipient_id |-> f, is_active |-> TRUE] :
                         f \in friend_ids}
    /\ lastOp' = "other"
    /\ lastSync' = NoSync
    /\ UNCHANGED <<positions, nextId, today, prevSync, overrides>>

\* the date changes between requests
AdvanceDay ==
    /\ today < MaxDay
    /\ today' = today + 1
    /\ UNCHANGED <<positions, nextId, lastOp, lastSync, prevSync, overrides, shares,
                   ops, serviceColumns>>

DbInit ==
    /\ positions = << >>
    /\ nextId = 1
    /\ today = 1
    /\ lastOp = "init"
    /\ lastSync = NoSync
    /\ prevSync = NoPrevSync
    /\ overrides = << >>
    /\ shares = {}
    /\ ops = 0
    /\ serviceColumns \in BOOLEAN

GrpIdle == gIn = <<>> /\ gOut = [raised |-> FALSE, groups |-> <<>>] /\ gPc = "idle"

SigIdle ==
    /\ sLegsA = <<>> /\ sLegsB = <<>> /\ sRel = "none"
    /\ sSigA = EmptyStr /\ sSigB = EmptyStr
    /\ sArgs = <<PyNone, PyNone>> /\ sMatch = FALSE /\ sPc = "idle"

FetchIdle ==
    fRaw = <<>> /\ fOut = [accounts |-> <<>>, positions |-> <<>>] /\ fPc = "idle"

\* the POST /sync requests that may be in flight together
Requests == {1, 2}

IdleRequest == [pc |-> "idle", groups |-> <<>>, existing_by_key |-> << >>]

ConcIdle == req = [r \in Requests |-> IdleRequest]

\* the coroutine before it is called
IdleTask ==
    [pc |-> "idle", event |-> "none", handler |-> FALSE, notify |-> FALSE,
     targets |-> <<>>, mode |-> "none", user_id |-> "", used |-> 0,
     items |-> {}, attached |-> FALSE, modified |-> FALSE, yielded |-> {},
     cur |-> "none", dead |-> {}, sent |-> {}, raised |-> FALSE,
     clients |-> {}]

\* ConnectionManager.__init__, and no coroutine running
WsIdle ==
    /\ active_connections = << >>
    /\ connection_to_user = << >>
    /\ task = IdleTask

AuxIdle == schwabAccounts = {} /\ WsIdle

Init == DbInit /\ GrpIdle /\ SigIdle /\ FetchIdle /\ ConcIdle /\ AuxIdle

Next ==
    \/ \E feed \in Feeds : SyncSchwabPositions(feed) /\ UNCHANGED <<grpVars, sigVars, fetchVars, concVars, auxVars>>
    \/ \E id \in DOMAIN positions, st \in StrategyChoices :
         UpdatePositionStrategy(id, st) /\ UNCHANGED <<grpVars, sigVars, fetchVars, concVars, auxVars>>
    \/ \E u \in Users : CreateTradeIdea(u) /\ UNCHANGED <<grpVars, sigVars, fetchVars, concVars, auxVars>>
    \/ \E id \in DOMAIN positions, u \in Users :
         UpdatePosition(id, u, "closed") /\ UNCHANGED <<grpVars, sigVars, fetchVars, concVars, auxVars>>
    \/ \E id \in DOMAIN positions, u \in Users :
         UpdatePositionTags(id, u, <<"hedge">>) /\ UNCHANGED <<grpVars, sigVars, fetchVars, concVars, auxVars>>
    \/ \E id \in DOMAIN positions, u \in Users :
         DeletePosition(id, u) /\ UNCHANGED <<grpVars, sigVars, fetchVars, concVars, auxVars>>
    \/ \E id \in DOMAIN positions, u \in Users :
         ConvertActualToTradeIdea(id, u) /\ UNCHANGED <<grpVars, sigVars, fetchVars, concVars, auxVars>>
    \/ \E id \in DOMAIN positions, u \in Users, fs \in SUBSET Friends :
         SharePosition(id, u, fs) /\ UNCHANGED <<grpVars, sigVars, fetchVars, concVars, auxVars>>
    \/ AdvanceDay /\ UNCHANGED <<grpVars, sigVars, fetchVars, concVars, auxVars>>

Spec == Init /\ [][Next]_vars

(***************************************************************************)
(* The strategy detector on its own: every leg list up to MaxLegs          *)
(***************************************************************************)
\* most legs in one input of the detector
MaxLegs == 4

\* the legs the detector is run on: one underlying in account a1 with two
\* stock lots, a box (long call 100, short call 110, long put 110, short put
\* 100), a lower long put, a put without strike, a large call without
\* expiration, and a put in a second account
GLegs ==
    { StockLeg("SPY", "a1", 100, 450, 45000),
      StockLeg("SPY", "a1", 0, 0, -4500),
      OptionLeg("SPY   250321C00100000", "SPY", "a1", "call", 10000, 1, 1, 2, 200),
      OptionLeg("SPY   250321C00110000", "SPY", "a1", "call", 11000, 1, -1, 2, -200),
      OptionLeg("SPY   250321P00110000", "SPY", "a1", "put", 11000, 1, 1, 2, 200),
      OptionLeg("SPY   250321P00100000", "SPY", "a1", "put", 10000, 1, -1, 2, -200),
      OptionLeg("SPY   250321P00090000", "SPY", "a1", "put", 9000, 1, 1, 2, 200),
      OptionLeg("SPY   250321P", "SPY", "a1", "put", None, 1, 1, 2, 200),
      OptionLeg("SPY   C00100000", "SPY", "a1", "call", 10000, None, -10, 2, -2000),
      OptionLeg("SPY   250321P00100000", "SPY", "a2", "put", 10000, 1, 1, 2, 200) }

\* most legs following a box in one input of the detector
MaxTail == 2

\* the box of GLegs, in one account
BoxLegs ==
    << OptionLeg("SPY   250321C00100000", "SPY", "a1", "call", 10000, 1, 1, 2, 200),
       OptionLeg("SPY   250321C00110000", "SPY", "a1", "call", 11000, 1, -1, 2, -200),
       OptionLeg("SPY   250321P00110000", "SPY", "a1", "put", 11000, 1, 1, 2, 200),
       OptionLeg("SPY   250321P00100000", "SPY", "a1", "put", 10000, 1, -1, 2, -200) >>

\* legs of a second account that may follow it: a put, and a put without
\* strike
TailLegs ==
    { OptionLeg("SPY   250321P00100000", "SPY", "a2", "put", 10000, 1, 1, 2, 200),
      OptionLeg("SPY   250321P", "SPY", "a2", "put", None, 1, 1, 2, 200) }

\* the lists the detector is run on: every list of up to MaxLegs legs of
\* GLegs, and the box followed by up to MaxTail legs of TailLegs
GroupInputs ==
    SeqsUpTo(GLegs, MaxLegs)
    \cup {BoxLegs \o t : t \in SeqsUpTo(TailLegs, MaxTail)}

GroupInit ==
    /\ gIn \in GroupInputs
    /\ gOut = [raised |-> FALSE, groups |-> <<>>]
    /\ gPc = "in"

\* grouped_positions = group_positions_by_strategy(gIn)
CallGroupPositions ==
    /\ gPc = "in"
    /\ gOut' = GroupPositionsByStrategy(gIn)
    /\ gPc' = "done"
    /\ UNCHANGED gIn

\* the same list goes through sync_schwab_positions on an empty database
SyncGroupedPositions ==
    /\ gPc = "done"
    /\ SyncSchwabPositions(gIn)
    /\ gPc' = "synced"
    /\ UNCHANGED <<gIn, gOut>>

NextGroup ==
    \/ CallGroupPositions /\ UNCHANGED <<dbVars, sigVars, fetchVars, concVars, auxVars>>
    \/ SyncGroupedPositions /\ UNCHANGED <<sigVars, fetchVars, concVars, auxVars>>

InitGroup == DbInit /\ serviceColumns = TRUE /\ SigIdle /\ FetchIdle /\ ConcIdle /\ AuxIdle /\ GroupInit

SpecGroup == InitGroup /\ [][NextGroup]_vars

(***************************************************************************)
(* The signature generator on its own: a leg list, one variation of it,    *)
(* the signatures of both, and signatures_match                            *)
(***************************************************************************)
\* most legs in one input of the signature generator
MaxSigLegs == 2

SigLegs ==
    { StockLeg("SPY", "a1", 5, 450, 2250),
      StockLeg("SPY", "a1", 500, 450, 225000),
      OptionLeg("SPY   250321C00100000", "SPY", "a1", "call", 10000, 1, 1, 2, 200),
      OptionLeg("SPY   250321C00110000", "SPY", "a1", "call", 11000, 1, -1, 2, -200),
      OptionLeg("SPY   250321P", "SPY", "a1", "put", None, 1, 1, 2, 200) }

\* values a variation moves a field to
VarQuantities == {-1, 7, 500}
VarPrices == {2, 3}
VarStrikes == {None, 10000, 10005}
VarExpirations == {None, 1, 2}
SigAccounts == {"a1", "a2"}

SigInit ==
    /\ sLegsA \in SeqsUpTo(SigLegs, MaxSigLegs)
    /\ sLegsB = sLegsA
    /\ sRel = "same"
    /\ sSigA = EmptyStr /\ sSigB = EmptyStr
    /\ sArgs = <<PyNone, PyNone>> /\ sMatch = FALSE
    /\ sPc = "in"

Vary(legs, rel) ==
    /\ sPc = "in"
    /\ sLegsB' = legs
    /\ sRel' = rel
    /\ sPc' = "varied"
    /\ UNCHANGED <<sLegsA, sSigA, sSigB, sArgs, sMatch>>

\* the same legs in another order
Permute ==
    \E i, j \in 1..Len(sLegsA) :
       /\ i < j
       /\ Vary([sLegsA EXCEPT ![i] = sLegsA[j], ![j] = sLegsA[i]], "permuted")

\* one leg with another quantity, average price and current value (and the
\* cost basis the normalizer derives from them)
Reprice ==
    \E i \in 1..Len(sLegsA), q \in VarQuantities, a \in VarPrices :
       LET l == sLegsA[i]
           m == IF l.asset_type = "option"
                THEN OptionLeg(l.symbol, l.underlying, l.account_hash, l.option_type,
                               l.strike, l.expiration, q, a, q * a * 100)
                ELSE StockLeg(l.symbol, l.account_hash, Abs(q), a, Abs(q) * a)
       IN Vary([sLegsA EXCEPT ![i] = m], "repriced")

\* one option leg with another strike
ChangeStrike ==
    \E i \in 1..Len(sLegsA), k \in VarStrikes :
       /\ sLegsA[i].asset_type = "option"
       /\ k # sLegsA[i].strike
       /\ Vary([sLegsA EXCEPT ![i].strike = k], "strike")

\* one option leg with another expiration
ChangeExpiration ==
    \E i \in 1..Len(sLegsA), e \in VarExpirations :
       /\ sLegsA[i].asset_type = "option"
       /\ e # sLegsA[i].expiration
       /\ Vary([sLegsA EXCEPT ![i].expiration = e], "expiration")

\* one more leg, at any place
AddLeg ==
    \E i \in 0..Len(sLegsA), l \in SigLegs :
       Vary(SubSeq(sLegsA, 1, i) \o <<l>> \o SubSeq(sLegsA, i + 1, Len(sLegsA)),
            "added")

\* one leg fewer
RemoveLeg ==
    \E i \in 1..Len(sLegsA) :
       Vary(SubSeq(sLegsA, 1, i - 1) \o SubSeq(sLegsA, i + 1, Len(sLegsA)),
            "removed")

\* both lists are signed for the same underlying and account
Sign ==
    /\ sPc \in {"in", "varied"}
    /\ \E acct \in SigAccounts :
         /\ sSigA' = GeneratePositionSignature(sLegsA, "SPY", acct)
         /\ sSigB' = GeneratePositionSignature(sLegsB, "SPY", acct)
    /\ sPc' = "signed"
    /\ UNCHANGED <<sLegsA, sLegsB, sRel, sArgs, sMatch>>

\* signatures_match(sig1, sig2) on any two of None, "" and the signatures
CallSignaturesMatch ==
    /\ sPc = "signed"
    /\ sRel \in {"same", "strike"}
    /\ \E a, b \in {PyNone, PyStr(EmptyStr), PyStr(sSigA), PyStr(sSigB)} :
         /\ sArgs' = <<a, b>>
         /\ sMatch' = SignaturesMatch(a, b)
    /\ sPc' = "matched"
    /\ UNCHANGED <<sLegsA, sLegsB, sRel, sSigA, sSigB>>

NextSig ==
    \/ Permute /\ UNCHANGED <<dbVars, grpVars, fetchVars, concVars, auxVars>>
    \/ Reprice /\ UNCHANGED <<dbVars, grpVars, fetchVars, concVars, auxVars>>
    \/ ChangeStrike /\ UNCHANGED <<dbVars, grpVars, fetchVars, concVars, auxVars>>
    \/ ChangeExpiration /\ UNCHANGED <<dbVars, grpVars, fetchVars, concVars, auxVars>>
    \/ AddLeg /\ UNCHANGED <<dbVars, grpVars, fetchVars, concVars, auxVars>>
    \/ RemoveLeg /\ UNCHANGED <<dbVars, grpVars, fetchVars, concVars, auxVars>>
    \/ Sign /\ UNCHANGED <<dbVars, grpVars, fetchVars, concVars, auxVars>>
    \/ CallSignaturesMatch /\ UNCHANGED <<dbVars, grpVars, fetchVars, concVars, auxVars>>

InitSig == DbInit /\ serviceColumns = TRUE /\ GrpIdle /\ FetchIdle /\ ConcIdle /\ AuxIdle /\ SigInit

SpecSig == InitSig /\ [][NextSig]_vars

(***************************************************************************)
(* The normalizer and fetch_account_data: the raw records of each account  *)
(* become legs                                                             *)
(***************************************************************************)
\* most raw records in the answer for one account
MaxRecords == 2

\* hashValue of the accounts get_account_numbers returns, in order
AccountHashes == <<"a1", "a2">>

\* a raw record of "positions"; putCall "null" is a JSON null
RawRecord(assetType, symbol, underlyingSymbol, putCall, longQuantity, shortQuantity, averagePrice, marketValue) ==
    [assetType |-> assetType, symbol |-> symbol,
     underlyingSymbol |-> underlyingSymbol, putCall |-> putCall,
     longQuantity |-> longQuantity, shortQuantity |-> shortQuantity,
     averagePrice |-> averagePrice, marketValue |-> marketValue]

\* the records the broker reports: 100 shares held long, 100 ETF shares
\* held short, 5 calls held short, a put held long, a put whose putCall
\* is null, and a mutual fund
RawRecords ==
    { RawRecord("EQUITY", "SPY", "", "", 100, 0, 450, 45000),
      RawRecord("ETF", "QQQ", "", "", 0, 100, 400, -40000),
      RawRecord("OPTION", "SPY   250321C00100000", "SPY", "CALL", 0, 5, 2, -1000),
      RawRecord("OPTION", "SPY   250321P00100000", "SPY", "PUT", 1, 0, 2, 200),
      RawRecord("OPTION", "SPY   250321P00090000", "SPY", "null", 1, 0, 2, 200),
      RawRecord("MUTUAL_FUND", "VFIAX", "", "", 10, 0, 400, 4000) }

\* re.search(r'(\d{8})$', ...) / 1000, in cents; None without eight digits
ParseStrike(symbol) ==
    CASE symbol \in {"SPY   250321C00100000", "SPY   250321P00100000"} -> 10000
      [] symbol = "SPY   250321P00090000" -> 9000
      [] OTHER -> None

\* re.match(r'^[A-Z]+(\d{6})[PC]', ...) as a day ordinal; None without a date
ParseExpiration(symbol) ==
    CASE symbol \in {"SPY   250321C00100000", "SPY   250321P00100000",
                      "SPY   250321P00090000"} -> 1
      [] OTHER -> None

\* str.lower()
Lower(str) ==
    CASE str = "CALL" -> "call"
      [] str = "PUT" -> "put"
      [] OTHER -> str

\* instrument.get("putCall", "").lower() of transform_option_position raises
\* AttributeError on a null putCall
TransformRaises(schwab_position) ==
    schwab_position.assetType = "OPTION" /\ schwab_position.putCall = "null"

TransformOptionPosition(schwab_position, account_info) ==
    OptionLeg(schwab_position.symbol, schwab_position.underlyingSymbol,
              account_info.hash_value, Lower(schwab_position.putCall),
              ParseStrike(schwab_position.symbol),
              ParseExpiration(schwab_position.symbol),
              schwab_position.longQuantity - schwab_position.shortQuantity,
              schwab_position.averagePrice, schwab_position.marketValue)

TransformEquityPosition(schwab_position, account_info) ==
    StockLeg(schwab_position.symbol, account_info.hash_value,
             schwab_position.longQuantity, schwab_position.averagePrice,
             schwab_position.marketValue)

\* transform_schwab_position: the leg, or none for another asset type
TransformSchwabPosition(schwab_position, account_info) ==
    IF schwab_position.assetType = "OPTION"
    THEN [some |-> TRUE, leg |-> TransformOptionPosition(schwab_position, account_info)]
    ELSE IF schwab_position.assetType \in {"EQUITY", "ETF", "PREFERRED_STOCK"}
    THEN [some |-> TRUE, leg |-> TransformEquityPosition(schwab_position, account_info)]
    ELSE [some |-> FALSE, leg |-> StockLeg("", "", 0, 0, 0)]

\* "for position in positions" inside the try block of one account: the
\* records are taken in order, and the first one whose transformation
\* raises ends the loop, the except clause going on to the next account
RECURSIVE TransformPositions(_, _, _)
TransformPositions(records, account_info, all_positions) ==
    IF records = <<>> THEN all_positions
    ELSE IF TransformRaises(Head(records)) THEN all_positions
    ELSE LET transformed == TransformSchwabPosition(Head(records), account_info)
         IN TransformPositions(Tail(records), account_info,
                               IF transformed.some
                               THEN Append(all_positions, transformed.leg)
                               ELSE all_positions)

\* "for account in accounts"
RECURSIVE FetchAccounts(_, _)
FetchAccounts(answers, out) ==
    IF answers = <<>> THEN out
    ELSE LET answer == Head(answers)
             account_info == [hash_value |-> answer.hashValue]
         IN FetchAccounts(Tail(answers),
              IF answer.status_code # 200 THEN out
              ELSE [accounts |-> Append(out.accounts, account_info),
                    positions |-> TransformPositions(answer.records, account_info,
                                                     out.positions)])

FetchAccountData(answers) ==
    FetchAccounts(answers, [accounts |-> <<>>, positions |-> <<>>])

\* what get_account answers for one account: an error status, or the records
Answers(account_hash) ==
    {[hashValue |-> account_hash, status_code |-> 401, records |-> <<>>]}
    \cup {[hashValue |-> account_hash, status_code |-> 200, records |-> rs] :
            rs \in SeqsUpTo(RawRecords, MaxRecords)}

FetchInit ==
    /\ fRaw \in {<<x, y>> : x \in Answers(AccountHashes[1]),
                            y \in Answers(AccountHashes[2])}
    /\ fOut = [accounts |-> <<>>, positions |-> <<>>]
    /\ fPc = "in"

\* schwab_data = fetch_account_data(user_id, db)
CallFetchAccountData ==
    /\ fPc = "in"
    /\ fOut' = FetchAccountData(fRaw)
    /\ fPc' = "done"
    /\ UNCHANGED fRaw

NextFetch ==
    CallFetchAccountData /\ UNCHANGED <<dbVars, grpVars, sigVars, concVars, auxVars>>

InitFetch ==
    DbInit /\ serviceColumns = TRUE /\ GrpIdle /\ SigIdle /\ ConcIdle /\ AuxIdle
    /\ FetchInit

SpecFetch == InitFetch /\ [][NextFetch]_vars

(***************************************************************************)
(* Two POST /sync requests served together.  sync_positions is a plain     *)
(* "def" endpoint, so each request runs in its own worker thread with its  *)
(* own session (get_db); both sync the same test_user_id.  A request first *)
(* reads the user's rows, later writes and commits.  On a database that    *)
(* starts empty no session writes a row that another one changed after it  *)
(* was loaded, so a commit is the reconciliation against what was read,    *)
(* applied to the rows committed by then.                                  *)
(***************************************************************************)
\* lines 238-283: fetch, detect, read existing_positions, build the dictionary
SyncRead(r, feed) ==
    /\ req[r].pc = "idle"
    /\ \E grouped \in {GroupPositionsByStrategy(feed)} :
         IF grouped.raised
         THEN req' = [req EXCEPT ![r].pc = "failed"]
         ELSE \E existing_by_key \in
                   ExistingByKey(positions, ActualIds(positions, SyncUser)) :
                req' = [req EXCEPT ![r] = [pc |-> "read",
                                           groups |-> grouped.groups,
                                           existing_by_key |-> existing_by_key]]
    /\ UNCHANGED dbVars

\* lines 285-416: the loop over the groups, the closes and db.commit()
SyncCommit(r) ==
    /\ req[r].pc = "read"
    /\ \E done \in {Reconcile(positions, nextId, req[r].groups,
                              req[r].existing_by_key, today)} :
         /\ positions' = done.pos
         /\ nextId' = done.next
    /\ req' = [req EXCEPT ![r].pc = "done"]
    /\ UNCHANGED <<today, lastOp, lastSync, prevSync, overrides, shares, ops,
                   serviceColumns>>

NextConc ==
    \/ \E r \in Requests, feed \in Feeds :
         SyncRead(r, feed) /\ UNCHANGED <<grpVars, sigVars, fetchVars, auxVars>>
    \/ \E r \in Requests :
         SyncCommit(r) /\ UNCHANGED <<grpVars, sigVars, fetchVars, auxVars>>

InitConc ==
    /\ DbInit /\ serviceColumns = TRUE /\ GrpIdle /\ SigIdle /\ FetchIdle
    /\ ConcIdle /\ AuxIdle

SpecConc == InitConc /\ [][NextConc]_vars

(***************************************************************************)
(* Syncs through fetch_account_data: the broker holds positions in two     *)
(* accounts, a sync fetches the accounts account_ids and the table         *)
(* user_schwab_accounts select, and reconciles what the fetch returned     *)
(***************************************************************************)
\* what the broker may hold in the first account: 5 calls held short and a
\* put held long, the two being single options of one underlying
HeldFirst ==
    { RawRecord("OPTION", "SPY   250321C00100000", "SPY", "CALL", 0, 5, 2, -1000),
      RawRecord("OPTION", "SPY   250321P00100000", "SPY", "PUT", 1, 0, 2, 200) }

\* what it may hold in the second account: 100 shares
HeldSecond ==
    { RawRecord("EQUITY", "SPY", "", "", 100, 0, 450, 45000) }

\* what get_account answers for an account holding some of held, each once
AnswersHolding(account_hash, held) ==
    {[hashValue |-> account_hash, status_code |-> 401, records |-> <<>>]}
    \cup {[hashValue |-> account_hash, status_code |-> 200, records |-> rs] :
            rs \in {x \in SeqsUpTo(held, MaxRecords) :
                      \A i, j \in 1..Len(x) : i # j => x[i] # x[j]}}

BrokerAnswers ==
    {<<x, y>> : x \in AnswersHolding(AccountHashes[1], HeldFirst),
                y \in AnswersHolding(AccountHashes[2], HeldSecond)}

\* lines 95-121 of fetch_account_data: the accounts of account_ids when
\* given, else the accounts with a row in user_schwab_accounts (sync_enabled
\* defaults to True and nothing clears it), else all of them
AccountsToFetch(account_ids, answers) ==
    IF account_ids # {}
    THEN SelectSeq(answers, LAMBDA a : a.hashValue \in account_ids)
    ELSE LET filtered_accounts ==
                 SelectSeq(answers, LAMBDA a : a.hashValue \in schwabAccounts)
         IN IF filtered_accounts # <<>> THEN filtered_accounts ELSE answers

\* sync_schwab_positions(db, SyncUser, account_ids): fetch, then the account
\* rows and the positions, committed together
SyncAccounts(account_ids, answers) ==
    \E schwab_data \in {FetchAccountData(AccountsToFetch(account_ids, answers))} :
       /\ SyncSchwabPositions(schwab_data.positions)
       /\ fRaw' = AccountsToFetch(account_ids, answers)
       /\ fOut' = schwab_data
       /\ fPc' = "done"
       /\ schwabAccounts' =
            IF lastOp' = "sync"
            THEN schwabAccounts
                 \cup {schwab_data.accounts[i].hash_value :
                         i \in 1..Len(schwab_data.accounts)}
            ELSE schwabAccounts

NextAccounts ==
    \/ \E account_ids \in {{}, {AccountHashes[1]}}, answers \in BrokerAnswers :
         SyncAccounts(account_ids, answers)
         /\ UNCHANGED <<grpVars, sigVars, concVars, wsVars>>
    \/ AdvanceDay /\ UNCHANGED <<grpVars, sigVars, fetchVars, concVars, auxVars>>

InitAccounts ==
    /\ DbInit /\ serviceColumns = TRUE /\ GrpIdle /\ SigIdle /\ FetchIdle
    /\ ConcIdle /\ AuxIdle

SpecAccounts == InitAccounts /\ [][NextAccounts]_vars

(***************************************************************************)
(* Syncs of legs that carry the day figures of the broker                  *)
(***************************************************************************)
\* most legs in one feed of this specification
MaxAggLegs == 2

\* most syncs in one run of this specification
MaxAggOps == 2

\* a normalized leg with "maintenance_requirement" and "current_day_pnl"
DayLeg(leg, maintenance_requirement, current_day_pnl) ==
    [f \in DOMAIN leg \cup {"maintenance_requirement", "current_day_pnl"} |->
        IF f = "maintenance_requirement" THEN maintenance_requirement
        ELSE IF f = "current_day_pnl" THEN current_day_pnl
        ELSE leg[f]]

\* 100 shares with both figures, a short call with a day figure only, a long
\* call whose cost offsets the short call's and which has a maintenance
\* figure only, and shares of cost 0 with a day figure
AggLegs ==
    { DayLeg(StockLeg("SPY", "a1", 100, 450, 45300), PyNum(13500), PyNum(-300)),
      DayLeg(OptionLeg("SPY   250321C00110000", "SPY", "a1", "call", 11000, 1, -1, 2, -150),
             NoNum, PyNum(25)),
      DayLeg(OptionLeg("SPY   250321C00100000", "SPY", "a1", "call", 10000, 1, 1, 2, 260),
             PyNum(500), NoNum),
      DayLeg(StockLeg("AAPL", "a1", 10, 0, 1500), NoNum, PyNum(40)) }

AggFeeds ==
    {f \in SeqsUpTo(AggLegs, MaxAggLegs) :
        \A i, j \in 1..Len(f) : i # j => f[i] # f[j]}

NextAgg ==
    \E feed \in AggFeeds :
       ops < MaxAggOps /\ SyncSchwabPositions(feed)
       /\ UNCHANGED <<grpVars, sigVars, fetchVars, concVars, auxVars>>

InitAgg ==
    /\ DbInit /\ serviceColumns = TRUE /\ GrpIdle /\ SigIdle /\ FetchIdle
    /\ ConcIdle /\ AuxIdle

SpecAgg == InitAgg /\ [][NextAgg]_vars

(***************************************************************************)
(* The WebSocket connection manager and the collaboration event handlers.  *)
(*                                                                         *)
(* One coroutine (task) runs send_personal_message or broadcast_all, on    *)
(* its own or under an event handler; at "await websocket.send_text" the   *)
(* event loop may run the endpoint coroutines of other connections, which  *)
(* connect and disconnect.  A set or dict iterator raises RuntimeError at  *)
(* its next step when the size of the collection is not the size it had    *)
(* when the iteration began; when the collection was modified and has that *)
(* size again, the elements still to come are not determined.              *)
(***************************************************************************)
\* the WebSocket objects of the model
WebSockets == {"ws1", "ws2"}

\* settings.BACKEND_USER_ID
BackendUser == "default-user"

\* the user_id query parameter of a connection: the backend's user, or ''
WsUsers == {BackendUser, ""}

\* the events whose handlers notify the frontend
CollabEvents == {"position_shared", "comment_added", "share_revoked"}

\* the two dictionaries of the manager
Conns == [active |-> active_connections, to_user |-> connection_to_user]

\* ConnectionManager.disconnect(websocket); "if user_id:" is false for ''
Disconnected(conns, websocket) ==
    IF websocket \notin DOMAIN conns.to_user THEN conns
    ELSE LET user_id == conns.to_user[websocket]
         IN IF user_id = "" THEN conns
            ELSE [active |->
                    IF user_id \notin DOMAIN conns.active THEN conns.active
                    ELSE IF conns.active[user_id] \ {websocket} = {}
                    THEN [u \in DOMAIN conns.active \ {user_id} |-> conns.active[u]]
                    ELSE [conns.active EXCEPT ![user_id] = @ \ {websocket}],
                  to_user |->
                    [w \in DOMAIN conns.to_user \ {websocket} |-> conns.to_user[w]]]

\* "for websocket in dead_connections: self.disconnect(websocket)"
RECURSIVE DisconnectAll(_, _)
DisconnectAll(conns, dead_connections) ==
    IF dead_connections = {} THEN conns
    ELSE LET websocket == CHOOSE w \in dead_connections : TRUE
         IN DisconnectAll(Disconnected(conns, websocket),
                          dead_connections \ {websocket})

\* the coroutine t calling send_personal_message for each user_id of
\* t.targets in turn, up to the first "await websocket.send_text": the
\* states it can be in then, one per element the set iterator may give first
RECURSIVE Begin(_, _)
Begin(t, active) ==
    IF t.targets = <<>> THEN {[t EXCEPT !.pc = "done", !.mode = "none"]}
    ELSE LET user_id == Head(t.targets)
         IN IF user_id \notin DOMAIN active
            THEN Begin([t EXCEPT !.targets = Tail(@)], active)
            ELSE {[t EXCEPT !.pc = "await", !.targets = Tail(@),
                            !.mode = "personal", !.user_id = user_id,
                            !.used = Cardinality(active[user_id]),
                            !.items = active[user_id], !.attached = TRUE,
                            !.modified = FALSE, !.yielded = {websocket},
                            !.cur = websocket, !.dead = {}] :
                     websocket \in active[user_id]}

\* ConnectionManager.connect(websocket, user_id), after websocket.accept()
Connect(websocket, user_id) ==
    /\ websocket \notin DOMAIN connection_to_user
    /\ active_connections' =
         [u \in DOMAIN active_connections \cup {user_id} |->
            IF u # user_id THEN active_connections[u]
            ELSE IF u \in DOMAIN active_connections
                 THEN active_connections[u] \cup {websocket}
                 ELSE {websocket}]
    /\ connection_to_user' =
         [w \in DOMAIN connection_to_user \cup {websocket} |->
            IF w = websocket THEN user_id ELSE connection_to_user[w]]
    /\ task' =
         IF task.pc = "await" /\ task.mode = "all"
         THEN [task EXCEPT !.modified = TRUE]
         ELSE IF /\ task.pc = "await" /\ task.mode = "personal"
                 /\ task.user_id = user_id /\ task.attached
         THEN [task EXCEPT !.items = @ \cup {websocket}, !.modified = TRUE]
         ELSE task

\* the endpoint of a connection calling ConnectionManager.disconnect
Disconnect(websocket) ==
    /\ websocket \in DOMAIN connection_to_user
    /\ active_connections' = Disconnected(Conns, websocket).active
    /\ connection_to_user' = Disconnected(Conns, websocket).to_user
    /\ task' =
         IF connection_to_user[websocket] = "" THEN task
         ELSE IF task.pc = "await" /\ task.mode = "all"
         THEN [task EXCEPT !.modified = TRUE]
         ELSE IF /\ task.pc = "await" /\ task.mode = "personal"
                 /\ task.user_id = connection_to_user[websocket]
                 /\ task.attached
         THEN [task EXCEPT !.items = @ \ {websocket}, !.modified = TRUE,
                           !.attached = (task.items \ {websocket} # {})]
         ELSE task

\* a call of ConnectionManager.send_personal_message(message, user_id)
SendPersonalMessage(user_id) ==
    /\ task.pc = "idle"
    /\ task' \in Begin([IdleTask EXCEPT !.event = "position_updated",
                                        !.targets = <<user_id>>],
                       active_connections)
    /\ UNCHANGED <<active_connections, connection_to_user>>

\* a call of ConnectionManager.broadcast_all(message), up to its first await
BroadcastAll ==
    /\ task.pc = "idle"
    /\ task' \in
         IF DOMAIN connection_to_user = {}
         THEN {[IdleTask EXCEPT !.pc = "done", !.event = "position_updated"]}
         ELSE {[IdleTask EXCEPT !.pc = "await", !.event = "position_updated",
                                !.mode = "all",
                                !.used = Cardinality(DOMAIN connection_to_user),
                                !.yielded = {websocket}, !.cur = websocket] :
                  websocket \in DOMAIN connection_to_user}
    /\ UNCHANGED <<active_connections, connection_to_user>>

\* "await websocket.send_text(message_json)" returns (ok) or raises, then the
\* for statement takes its next step: RuntimeError when the size changed,
\* the next connection, or the end of the loop with the clean-up of the dead
\* connections and the next send_personal_message of the caller
Resume(ok) ==
    /\ task.pc = "await"
    /\ LET items == IF task.mode = "all" THEN DOMAIN connection_to_user
                    ELSE task.items
           t1 == [task EXCEPT
                    !.sent = IF ok THEN @ \cup {<<task.cur, task.event>>} ELSE @,
                    !.dead = IF ok THEN @ ELSE @ \cup {task.cur}]
       IN IF Cardinality(items) # task.used
          THEN /\ task' = [t1 EXCEPT !.pc = "done", !.raised = TRUE,
                                     !.targets = <<>>]
               /\ UNCHANGED <<active_connections, connection_to_user>>
          ELSE \/ \E websocket \in items \ task.yielded :
                    /\ task' = [t1 EXCEPT !.cur = websocket,
                                          !.yielded = @ \cup {websocket}]
                    /\ UNCHANGED <<active_connections, connection_to_user>>
               \/ /\ items \ task.yielded = {} \/ task.modified
                  /\ \E after \in {DisconnectAll(Conns, t1.dead)} :
                       /\ active_connections' = after.active
                       /\ connection_to_user' = after.to_user
                       /\ task' \in Begin(t1, after.active)

\* the user_ids with which the broadcast function called by the handler of
\* the event calls send_personal_message: broadcast_position_shared with
\* recipient_ids=[], broadcast_comment_added with owner_id='' and
\* shared_with=[], broadcast_share_revoked with recipient_ids=[]
HandlerTargets(event) ==
    CASE event = "position_shared" -> <<>>
      [] event = "comment_added" -> <<"">>
      [] event = "share_revoked" -> <<>>

\* handle_position_shared, handle_comment_added, handle_share_revoked on one
\* event received from the collaboration service; share_url: the event has
\* one, position_data: the remote fetch returned the position
HandleEvent(event, share_url, position_data) ==
    /\ task.pc = "idle"
    /\ LET returns == event = "position_shared" /\ ~(share_url /\ position_data)
       IN task' \in
            Begin([IdleTask EXCEPT
                     !.event = event, !.handler = TRUE, !.notify = ~returns,
                     !.targets = IF returns THEN <<>> ELSE HandlerTargets(event),
                     !.clients = IF BackendUser \in DOMAIN active_connections
                                 THEN active_connections[BackendUser] ELSE {}],
                  active_connections)
    /\ UNCHANGED <<active_connections, connection_to_user>>

\* the coroutine returns to its caller
Return ==
    /\ task.pc = "done"
    /\ task' = IdleTask
    /\ UNCHANGED <<active_connections, connection_to_user>>

NextWs ==
    \/ \E websocket \in WebSockets, user_id \in WsUsers :
         Connect(websocket, user_id)
         /\ UNCHANGED <<dbVars, grpVars, sigVars, fetchVars, concVars, schwabAccounts>>
    \/ \E websocket \in WebSockets :
         Disconnect(websocket)
         /\ UNCHANGED <<dbVars, grpVars, sigVars, fetchVars, concVars, schwabAccounts>>
    \/ \E user_id \in WsUsers :
         SendPersonalMessage(user_id)
         /\ UNCHANGED <<dbVars, grpVars, sigVars, fetchVars, concVars, schwabAccounts>>
    \/ BroadcastAll
       /\ UNCHANGED <<dbVars, grpVars, sigVars, fetchVars, concVars, schwabAccounts>>
    \/ \E ok \in BOOLEAN :
         Resume(ok)
         /\ UNCHANGED <<dbVars, grpVars, sigVars, fetchVars, concVars, schwabAccounts>>
    \/ \E event \in CollabEvents, share_url \in BOOLEAN, position_data \in BOOLEAN :
         HandleEvent(event, share_url, position_data)
         /\ UNCHANGED <<dbVars, grpVars, sigVars, fetchVars, concVars, schwabAccounts>>
    \/ Return
       /\ UNCHANGED <<dbVars, grpVars, sigVars, fetchVars, concVars, schwabAccounts>>

InitWs ==
    /\ DbInit /\ serviceColumns = TRUE /\ GrpIdle /\ SigIdle /\ FetchIdle
    /\ ConcIdle /\ AuxIdle

SpecWs == InitWs /\ [][NextWs]_vars

(***************************************************************************)
(* Properties                                                              *)
(***************************************************************************)

\* C1: when group_positions_by_strategy returns, the legs of its groups are
\* the input legs, each as often as the input holds it: as many legs in all,
\* none duplicated, none dropped.
Conservation ==
    (gPc = "done" /\ ~gOut.raised) =>
       /\ SumLens(gOut.groups) = Len(gIn)
       /\ \A i \in 1..Len(gIn) :
            Count(gIn[i], ConcatLegs(gOut.groups)) = Count(gIn[i], gIn)

\* four legs are grouped into a covered call and a vertical spread
ConservationWitness ==
    /\ gPc = "done" /\ ~gOut.raised /\ Len(gIn) = 4
    /\ \E g \in 1..Len(gOut.groups) : gOut.groups[g].strategy_type = "covered_call"
    /\ \E g \in 1..Len(gOut.groups) : gOut.groups[g].strategy_type = "vertical_spread"

ActualNeverRemoved ==
    [][\A id \in DOMAIN positions :
         positions[id].flavor = "actual" =>
            id \in DOMAIN positions' /\ positions'[id].flavor = "actual"]_vars

\* a trade idea has just been deleted while an actual position is stored
ActualNeverRemovedWitness ==
    /\ lastOp = "delete"
    /\ \E id \in DOMAIN positions : positions[id].flavor = "actual"

\* C6: the signature of a leg list is the signature of each permutation of it.
PermutationInvariant ==
    (sPc = "signed" /\ sRel = "permuted") => sSigA = sSigB

\* the range of a stock quantity as the specification states it
SameRange(q1, q2) ==
    \A bound \in {10, 100, 1000} : (Abs(q1) < bound) <=> (Abs(q2) < bound)

StructureSensitive ==
    (sPc = "signed" /\ sRel \in {"strike", "expiration", "added", "removed"})
    => sSigA # sSigB

\* the strike of one of two legs changed
StructureWitness ==
    /\ sPc = "signed" /\ sRel = "strike" /\ Len(sLegsA) = 2
    /\ sSigA # sSigB /\ sSigA # EmptyStr /\ sSigB # EmptyStr

DetectionNeverFails ==
    gPc = "done" =>
       /\ ~gOut.raised
       /\ \A i \in 1..Len(gIn) : InSeq(gIn[i], ConcatLegs(gOut.groups))

\* C12: when the transformation of one raw record of an account raises in
\* fetch_account_data, only that record is dropped: every other record of
\* the account, before or after it, and every record of the other accounts
\* is returned as a leg, as many times as it was reported.
RecordDropIsLocal ==
    fPc = "done" =>
      \A a \in 1..Len(fRaw) :
        fRaw[a].status_code = 200 =>
          LET records == fRaw[a].records
              info == [hash_value |-> fRaw[a].hashValue]
              Kept(j) == /\ ~TransformRaises(records[j])
                         /\ TransformSchwabPosition(records[j], info).some
          IN \A j \in 1..Len(records) :
               Kept(j) =>
                 LET leg == TransformSchwabPosition(records[j], info).leg
                 IN Count(leg, fOut.positions) =
                      Cardinality({i \in 1..Len(records) :
                          Kept(i) /\ TransformSchwabPosition(records[i], info).leg = leg})

\* C13: reconciliation for one user is serialized: two runs of
\* sync_schwab_positions for the same user never overlap between reading
\* the existing positions and committing.
SerializedSync ==
    \A r1, r2 \in Requests :
        req[r1].pc = "read" /\ req[r2].pc = "read" => r1 = r2

\* C14: a sync that fails before its final commit persists none of its
\* creates, updates, leg replacements or closes: the stored positions are
\* exactly those before it; a sync that returns has persisted all of them
\* together: one active position per group.
AtomicSync ==
    [][ops' # ops =>
         /\ lastOp' = "sync_failed" => positions' = positions
         /\ lastOp' = "sync" =>
              LET synced == lastSync'.matched \cup lastSync'.created
              IN /\ Cardinality(synced) = lastSync'.groups
                 /\ \A id \in synced :
                      id \in DOMAIN positions' /\ positions'[id].status = "active"]_vars

\* a sync failed after its session had written positions
AtomicSyncWitness ==
    /\ lastOp = "sync_failed"
    /\ lastSync.flushed > 0
    /\ ActualIds(positions, SyncUser) # {}

CostBasisSign ==
    fPc = "done" =>
      \A i \in 1..Len(fOut.positions) :
        LET leg == fOut.positions[i]
            multiplier == IF leg.asset_type = "option" THEN 100 ELSE 1
            amount == Abs(leg.quantity) * leg.average_price * multiplier
        IN leg.cost_basis = IF leg.quantity < 0 THEN -amount ELSE amount

\* the fetch returned an option leg of quantity -5 bought at 2.00, with
\* cost basis -1000, and a stock leg of 100 shares
CostBasisSignWitness ==
    /\ fPc = "done"
    /\ \E i \in 1..Len(fOut.positions) :
         /\ fOut.positions[i].asset_type = "option"
         /\ fOut.positions[i].quantity = -5
         /\ fOut.positions[i].average_price = 2
         /\ fOut.positions[i].cost_basis = -1000
    /\ \E i \in 1..Len(fOut.positions) :
         /\ fOut.positions[i].asset_type = "stock"
         /\ fOut.positions[i].quantity = 100
         /\ fOut.positions[i].cost_basis = 45000

\* C18: for every raw record the normalizer accepts (equity, ETF, preferred
\* stock or option) the quantity of the resulting leg is longQuantity minus
\* shortQuantity, negative for a short holding.
QuantityIsLongMinusShort ==
    fPc = "done" =>
      \A i \in 1..Len(fOut.positions) :
        \A r \in RawRecords :
          r.symbol = fOut.positions[i].symbol =>
            fOut.positions[i].quantity = r.longQuantity - r.shortQuantity

\* the covered_call groups of the detector's output
CoveredCallGroups ==
    SelectSeq(gOut.groups, LAMBDA g : g.strategy_type = "covered_call")

\* C19: every covered_call group is one stock leg and one short call leg of
\* the same underlying and account, the stock quantity being at least 100
\* times the absolute call quantity; a stock leg or a call leg is in at most
\* one covered_call group; and whenever the input holds, for one underlying
\* and account, a stock leg and a short call that it covers, at least one
\* covered_call group of that underlying and account is output.
CoveredCallDetection ==
    gPc \in {"done", "synced"} =>
      /\ \A n \in 1..Len(CoveredCallGroups) :
           LET g == CoveredCallGroups[n]
           IN /\ Len(g.legs) = 2
              /\ g.legs[1].asset_type = "stock"
              /\ g.legs[2].asset_type = "option"
              /\ g.legs[2].option_type = "call"
              /\ g.legs[2].quantity < 0
              /\ g.legs[1].underlying = g.legs[2].underlying
              /\ g.legs[1].account_hash = g.legs[2].account_hash
              /\ g.legs[1].quantity >= 100 * Abs(g.legs[2].quantity)
      /\ \A i \in 1..Len(gIn) :
           Cardinality({n \in 1..Len(CoveredCallGroups) :
                           InSeq(gIn[i], CoveredCallGroups[n].legs)})
             <= Count(gIn[i], gIn)
      /\ \A i, j \in 1..Len(gIn) :
           ( /\ gIn[i].asset_type = "stock"
             /\ gIn[j].asset_type = "option"
             /\ gIn[i].underlying = gIn[j].underlying
             /\ gIn[i].account_hash = gIn[j].account_hash
             /\ Covers(gIn[i], gIn[j]) )
           => \E n \in 1..Len(CoveredCallGroups) :
                /\ CoveredCallGroups[n].underlying = gIn[i].underlying
                /\ CoveredCallGroups[n].legs[1].account_hash = gIn[i].account_hash

\* the buckets of one (underlying, account) as the box test sees them, each
\* after the covered-call pairing of its turn
RECURSIVE PairedBuckets(_, _, _, _)
PairedBuckets(w, exps, options, und) ==
    IF exps = <<>> \/ w.raised THEN <<>>
    ELSE LET bucket == SelectSeq(options, LAMBDA o : o.expiration = Head(exps))
             w1 == CoveredCalls(w.remaining_stocks,
                                [w EXCEPT !.exp_options = bucket], und)
         IN <<w1.exp_options>>
            \o PairedBuckets(Bucket(w, bucket, und), Tail(exps), options, und)

\* the same for the (underlying, account) pairs of the input that the
\* detector reaches
RECURSIVE PairedBucketsOfKeys(_, _)
PairedBucketsOfKeys(keys, legs) ==
    IF keys = <<>> THEN <<>>
    ELSE LET k == Head(keys)
             group == SelectSeq(legs, LAMBDA p :
                          <<p.underlying, p.account_hash>> = k)
             stocks  == SelectSeq(group, LAMBDA p : p.asset_type = "stock")
             options == SelectSeq(group, LAMBDA p : p.asset_type = "option")
             exps == DistinctInOrder([i \in 1..Len(options) |->
                                        options[i].expiration])
         IN PairedBuckets([raised |-> FALSE, detected |-> <<>>,
                           remaining_stocks |-> stocks,
                           remaining_options |-> options,
                           exp_options |-> <<>>], exps, options, k[1])
            \o (IF GroupOneKey(group, k[1]).raised THEN <<>>
                ELSE PairedBucketsOfKeys(Tail(keys), legs))

\* the bucket is a long call, a short call, a long put and a short put with
\* the strikes of a box
IsBoxBucket(b) ==
    /\ Len(b) = 4
    /\ \E cl, cs, pl, ps \in 1..4 :
         /\ Cardinality({cl, cs, pl, ps}) = 4
         /\ IsCall(b[cl]) /\ IsLong(b[cl])
         /\ IsCall(b[cs]) /\ IsShort(b[cs])
         /\ IsPut(b[pl]) /\ IsLong(b[pl])
         /\ IsPut(b[ps]) /\ IsShort(b[ps])
         /\ b[cl].strike = b[ps].strike
         /\ b[cs].strike = b[pl].strike

\* C20: when, after the covered-call pairing, an expiration bucket holds
\* exactly four option legs, a long call, a short call, a long put and a
\* short put, the long call's strike being the short put's and the short
\* call's the long put's, the four are output as one box_spread group and
\* none of them is in a group of another type.
BoxSpreadDetection ==
    gPc \in {"done", "synced"} =>
      LET buckets == PairedBucketsOfKeys(
                       DistinctInOrder([i \in 1..Len(gIn) |->
                          <<gIn[i].underlying, gIn[i].account_hash>>]), gIn)
      IN \A n \in 1..Len(buckets) :
           IsBoxBucket(buckets[n]) =>
             /\ \E g \in 1..Len(gOut.groups) :
                  /\ gOut.groups[g].strategy_type = "box_spread"
                  /\ Len(gOut.groups[g].legs) = 4
                  /\ \A i \in 1..4 : InSeq(buckets[n][i], gOut.groups[g].legs)
             /\ \A g \in 1..Len(gOut.groups) :
                  gOut.groups[g].strategy_type # "box_spread" =>
                    \A i \in 1..4 : ~InSeq(buckets[n][i], gOut.groups[g].legs)

\* the accounts the last fetch returned
FetchedAccounts(out) == {out.accounts[i].hash_value : i \in 1..Len(out.accounts)}

ActiveActual ==
    {id \in ActualIds(positions, SyncUser) : positions[id].status = "active"}

VerticalBuckets ==
    LET buckets == PairedBucketsOfKeys(
                     DistinctInOrder([i \in 1..Len(gIn) |->
                        <<gIn[i].underlying, gIn[i].account_hash>>]), gIn)
    IN [n \in 1..Len(buckets) |->
          IF IsBoxBucket(buckets[n]) THEN <<>> ELSE buckets[n]]

\* exactly two puts, the one with the higher strike short and the other long
IsPutVertical(same) ==
    /\ Len(same) = 2
    /\ \E i, j \in 1..2 :
         /\ same[i].strike # None /\ same[j].strike # None
         /\ same[i].strike > same[j].strike
         /\ same[i].quantity < 0 /\ same[j].quantity > 0

\* exactly two calls, the one with the lower strike long and the other short
IsCallVertical(same) ==
    /\ Len(same) = 2
    /\ \E i, j \in 1..2 :
         /\ same[i].strike # None /\ same[j].strike # None
         /\ same[i].strike < same[j].strike
         /\ same[i].quantity > 0 /\ same[j].quantity < 0

\* the two lists hold the same legs, in any order
SameLegs(legs, same) ==
    /\ Len(legs) = Len(same)
    /\ \A i \in 1..Len(same) : Count(same[i], legs) = Count(same[i], same)

\* the detector's output holds the legs of same as one vertical_spread
\* group, and none of them as a single-leg group
OutputAsVertical(same) ==
    /\ \E g \in 1..Len(gOut.groups) :
         /\ gOut.groups[g].strategy_type = "vertical_spread"
         /\ SameLegs(gOut.groups[g].legs, same)
    /\ \A i \in 1..Len(same), g \in 1..Len(gOut.groups) :
         gOut.groups[g].legs # <<same[i]>>

\* the detector's output holds every leg of same in a one-leg group, as
\* often as same holds it, and in no vertical_spread group
OutputAsSingles(same) ==
    \A i \in 1..Len(same) :
       /\ Cardinality({g \in 1..Len(gOut.groups) :
                         /\ gOut.groups[g].legs = <<same[i]>>
                         /\ gOut.groups[g].strategy_type
                              \in {"single_option", "big_option"}})
            = Count(same[i], same)
       /\ \A g \in 1..Len(gOut.groups) :
            gOut.groups[g].strategy_type = "vertical_spread" =>
               ~InSeq(same[i], gOut.groups[g].legs)

\* C25: for every expiration bucket as it is after covered-call and box
\* detection, its puts are output as one vertical_spread group exactly when
\* they are two, the higher strike short and the lower long, and its calls
\* exactly when they are two, the lower strike long and the higher short;
\* otherwise every one of them is output as a single-leg group; and every
\* vertical_spread group of the output is the puts or the calls of a bucket.
VerticalSpreadDetection ==
    gPc \in {"done", "synced"} =>
      \E buckets \in {VerticalBuckets} :
        /\ \A n \in 1..Len(buckets) :
             LET puts  == SelectSeq(buckets[n], IsPut)
                 calls == SelectSeq(buckets[n], IsCall)
             IN /\ IF IsPutVertical(puts) THEN OutputAsVertical(puts)
                                         ELSE OutputAsSingles(puts)
                /\ IF IsCallVertical(calls) THEN OutputAsVertical(calls)
                                           ELSE OutputAsSingles(calls)
        /\ \A g \in 1..Len(gOut.groups) :
             gOut.groups[g].strategy_type = "vertical_spread" =>
               \E n \in 1..Len(buckets) :
                  LET puts  == SelectSeq(buckets[n], IsPut)
                      calls == SelectSeq(buckets[n], IsCall)
                  IN \/ IsPutVertical(puts) /\ SameLegs(gOut.groups[g].legs, puts)
                     \/ IsCallVertical(calls) /\ SameLegs(gOut.groups[g].legs, calls)

\* the legs that no strategy took, of every (underlying, account) pair of
\* the input whose expiration buckets the detector processed to the end
RECURSIVE LeftoverLegs(_, _)
LeftoverLegs(keys, legs) ==
    IF keys = <<>> THEN <<>>
    ELSE LET k == Head(keys)
             group == SelectSeq(legs, LAMBDA p :
                          <<p.underlying, p.account_hash>> = k)
             stocks  == SelectSeq(group, LAMBDA p : p.asset_type = "stock")
             options == SelectSeq(group, LAMBDA p : p.asset_type = "option")
             exps == DistinctInOrder([i \in 1..Len(options) |->
                                        options[i].expiration])
             w == Buckets([raised |-> FALSE, detected |-> <<>>,
                           remaining_stocks |-> stocks,
                           remaining_options |-> options,
                           exp_options |-> <<>>], exps, options, k[1])
         IN IF w.raised THEN <<>>
            ELSE w.remaining_stocks \o w.remaining_options
                 \o LeftoverLegs(Tail(keys), legs)

\* the type of the one-leg group of a leftover leg
LeftoverType(leg) ==
    IF leg.asset_type = "stock"
    THEN IF leg.quantity > 0 THEN "long_stock" ELSE "short_stock"
    ELSE IF Abs(leg.quantity) >= BigOptionQty \/ Abs(leg.cost_basis) >= BigOptionCost
         THEN "big_option" ELSE "single_option"

\* C26: every leg left unmatched when the expiration buckets of its
\* (underlying, account) pair have been processed is output as a one-leg
\* group, as often as it was left: long_stock for a stock leg of positive
\* quantity and short_stock for any other stock leg, big_option for an option
\* leg with |quantity| >= 10 or |cost_basis| >= 5000 and single_option for
\* any other option leg; and it is in no one-leg group of another type.
LeftoverDetection ==
    gPc \in {"done", "synced"} =>
      \E left \in {LeftoverLegs(DistinctInOrder([i \in 1..Len(gIn) |->
                      <<gIn[i].underlying, gIn[i].account_hash>>]), gIn)} :
         \A i \in 1..Len(left) :
            /\ Cardinality({g \in 1..Len(gOut.groups) :
                              /\ gOut.groups[g].legs = <<left[i]>>
                              /\ gOut.groups[g].strategy_type = LeftoverType(left[i])})
                 = Count(left[i], left)
            /\ \A g \in 1..Len(gOut.groups) :
                 gOut.groups[g].legs = <<left[i]>> =>
                    gOut.groups[g].strategy_type = LeftoverType(left[i])

\* the stored position is the given group of the sync: its key and its legs
StoredFrom(p, group) ==
    /\ p.symbol = group.underlying
    /\ p.strategy_type = group.strategy_type
    /\ p.account_id = group.legs[1].account_hash
    /\ p.legs = [i \in 1..Len(group.legs) |-> PositionLeg(group.legs[i])]

\* the figure of a leg, 0 when the leg has none
FigureOrZero(leg, field) ==
    IF field \in DOMAIN leg /\ ~leg[field].none THEN leg[field].val ELSE 0

MapsAgree ==
    /\ \A w \in DOMAIN connection_to_user :
         /\ connection_to_user[w] \in DOMAIN active_connections
         /\ w \in active_connections[connection_to_user[w]]
    /\ \A u \in DOMAIN active_connections :
         /\ active_connections[u] # {}
         /\ \A w \in active_connections[u] :
              w \in DOMAIN connection_to_user /\ connection_to_user[w] = u

\* C29: send_personal_message and broadcast_all end without error whatever
\* connects and disconnects at their await points: the collection they
\* iterate is not modified while the iteration is in progress, and the two
\* dictionaries of the manager describe the same connections.
IterationUndisturbed ==
    /\ ~task.raised
    /\ task.pc = "await" => ~task.modified
    /\ MapsAgree

\* C30: when the handler of a position_shared (with share_url and fetched
\* position), comment_added or share_revoked event has ended, every client
\* of the backend's user that was connected throughout has been sent a
\* message of that event.
LocalFrontendNotified ==
    (task.pc = "done" /\ task.handler /\ task.notify) =>
       \A websocket \in task.clients :
          ( /\ websocket \in DOMAIN connection_to_user
            /\ connection_to_user[websocket] = BackendUser )
          => <<websocket, task.event>> \in task.sent

====
